---------------------------- MODULE Spec2Model ----------------------------
(***************************************************************************)
(* TriageMapRouter (src/src/components/TriageMapRouter.jsx): the facility  *)
(* search, the two-phase ranking pipeline, and the directions panel of the *)
(* map screen, as a state machine over the component's React state, its    *)
(* refs and the service callbacks in flight.                               *)
(*                                                                         *)
(* Numbers: distances are in tenths of a kilometre and every catalogue     *)
(* distance divides 50, so that 5 / max(km, 0.1) = 50 \div max(dist, 1) is *)
(* exact; ratings are whole stars, 0 standing for an absent rating.        *)
(* An optional value is a sequence of length at most one.                  *)
(***************************************************************************)
EXTENDS Integers, Sequences, FiniteSets, TLC

VARIABLES
  keyConfigured,   \* GOOGLE_MAPS_KEY is truthy
  triageResult,    \* the prop: NoTriage or an urgency
  initPc,          \* where the mount effect's init() stands
  userLocation,    \* "none", "geo" or "default"
  places,          \* useState([])
  loading,         \* useState(true)
  error,           \* useState(null): NoError or a message
  selectedPlace,   \* useState(null): optional place
  directions,      \* useState(null): optional DirectionsResult
  routeInfo,       \* useState(null): optional {distance, duration, steps}
  mapInstance,     \* mapInstanceRef.current: 0, or the search that made it
  markers,         \* markersRef.current: sequence of [place, map]
  renderer,        \* directionsRendererRef.current: optional [map, shown]
  searches,        \* one record per run of the search effect's body
  routes,          \* one record per directionsService.route request
  clearedAt        \* history: how many requests had been issued when
                   \* clearDirections last ran (0: it never ran)

vars == <<keyConfigured, triageResult, initPc, userLocation, places, loading,
          error, selectedPlace, directions, routeInfo, mapInstance, markers,
          renderer, searches, routes, clearedAt>>

-----------------------------------------------------------------------------
(* Bounds of the model *)

MaxResults == 6    \* longest result list of the ranking specification
MaxLen == 2        \* longest result list of the other specifications
MaxRaceLen == 1    \* longest result list when searches overlap
MaxSearches == 2   \* runs of the search effect in one behaviour
MaxRoutes == 2     \* directions requests in one behaviour

-----------------------------------------------------------------------------
(* Values *)

NoTriage == "none"
NoError == "null"
Urgencies == {"emergency", "urgent"}

None == <<>>
Some(x) == <<x>>

OpenTrue == "true"
OpenFalse == "false"
OpenNull == "null"
OpenUndefined == "undefined"

KeyMissingMsg == "Google Maps API key is not configured"
LoadFailedMsg == "Failed to load Google Maps"
NoHospitalsMsg == "No hospitals found nearby"

Max(a, b) == IF a >= b THEN a ELSE b
Min(a, b) == IF a <= b THEN a ELSE b

(* What the places service can return: each place with its identifier,     *)
(* whether it carries geometry, its distance from the user (tenths of a    *)
(* kilometre), its rating (0: none) and its number of reviews.             *)
Catalog ==
  << [place_id |-> 1, geometry |-> TRUE,  dist |-> 10, rating |-> 4, user_ratings_total |-> 120],
     [place_id |-> 2, geometry |-> TRUE,  dist |-> 25, rating |-> 0, user_ratings_total |-> 0],
     [place_id |-> 3, geometry |-> TRUE,  dist |-> 5,  rating |-> 3, user_ratings_total |-> 10],
     [place_id |-> 4, geometry |-> FALSE, dist |-> 1,  rating |-> 5, user_ratings_total |-> 900],
     [place_id |-> 5, geometry |-> TRUE,  dist |-> 10, rating |-> 4, user_ratings_total |-> 51],
     [place_id |-> 6, geometry |-> TRUE,  dist |-> 50, rating |-> 5, user_ratings_total |-> 50],
     [place_id |-> 7, geometry |-> TRUE,  dist |-> 0,  rating |-> 2, user_ratings_total |-> 7] >>

RECURSIVE SubSeqsOf(_)
(* Every subsequence of s, order kept. *)
SubSeqsOf(s) ==
  IF s = <<>> THEN {<<>>}
  ELSE LET rest == SubSeqsOf(Tail(s))
       IN  rest \cup {<<Head(s)>> \o r : r \in rest}

ResultLists(n, maxLen) ==
  {r \in SubSeqsOf(SubSeq(Catalog, 1, Min(n, Len(Catalog)))) : Len(r) <= maxLen}

-----------------------------------------------------------------------------
(* Search policy and scoring *)

PreFilterCap(urgency) == IF urgency = "emergency" THEN 6 ELSE 8

(* ResultCap taking the pre-filter cap for the result cap. *)
ResultCapOfPreFilter(urgency) == IF urgency = "emergency" THEN 6 ELSE 8

ResultCap(urgency) == IF urgency = "emergency" THEN 3 ELSE 5

calculateScore(place, dist) ==
  LET distanceScore == 50 \div Max(dist, 1)
      ratingScore == IF place.rating = 0 THEN 3 ELSE place.rating
      popularityBonus == IF place.user_ratings_total > 50 THEN 1 ELSE 0
  IN  distanceScore + ratingScore + popularityBonus

(* The phase-1 comparator (a, b) => b.score - a.score. *)
ScoreCompare(a, b) == b.score - a.score

(* OpenCompare without its emergency rule. *)
OpenCompareNoEmergencyRule(urgency, a, b) ==
  IF a.isOpen = OpenTrue /\ b.isOpen = OpenFalse THEN -1
  ELSE IF a.isOpen = OpenFalse /\ b.isOpen = OpenTrue THEN 1
  ELSE b.score - a.score

(* The phase-2 comparator of the join's sort. *)
OpenCompare(urgency, a, b) ==
  IF urgency = "emergency" /\ a.isOpen = OpenTrue /\ b.isOpen # OpenTrue THEN -1
  ELSE IF urgency = "emergency" /\ b.isOpen = OpenTrue /\ a.isOpen # OpenTrue THEN 1
  ELSE IF a.isOpen = OpenTrue /\ b.isOpen = OpenFalse THEN -1
  ELSE IF a.isOpen = OpenFalse /\ b.isOpen = OpenTrue THEN 1
  ELSE b.score - a.score

(* mode "score" is the phase-1 comparator, any other mode is the phase-2    *)
(* comparator under that urgency.                                          *)
Compare(mode, a, b) ==
  IF mode = "score" THEN ScoreCompare(a, b) ELSE OpenCompare(mode, a, b)

-----------------------------------------------------------------------------
(* Array.prototype.sort.  With a consistent comparator every engine returns *)
(* the one stable order; with an inconsistent one the order is whatever the *)
(* engine's algorithm makes of the comparisons.  Two algorithms are         *)
(* modelled: the binary insertion sort behind a run detection that V8 uses  *)
(* for arrays this short, and a stable top-down merge sort.                 *)

Reverse(s) == [i \in 1..Len(s) |-> s[Len(s) + 1 - i]]

RECURSIVE RunEnd(_, _, _, _)
(* The last index of the run that starts at 1, idx being its current end. *)
RunEnd(mode, s, descending, idx) ==
  IF idx >= Len(s) THEN idx
  ELSE LET order == Compare(mode, s[idx + 1], s[idx])
       IN  IF descending /\ order >= 0 THEN idx
           ELSE IF ~descending /\ order < 0 THEN idx
           ELSE RunEnd(mode, s, descending, idx + 1)

RECURSIVE BinarySearch(_, _, _, _, _)
(* Where pivot goes in the sorted prefix s[1..n]: 0-based left/right. *)
BinarySearch(mode, s, pivot, left, right) ==
  IF left >= right THEN left
  ELSE LET mid == left + ((right - left) \div 2)
       IN  IF Compare(mode, pivot, s[mid + 1]) < 0
           THEN BinarySearch(mode, s, pivot, left, mid)
           ELSE BinarySearch(mode, s, pivot, mid + 1, right)

RECURSIVE BinaryInsertionSort(_, _, _)
(* s[1..start] is sorted; insert s[start+1], s[start+2], ... in turn. *)
BinaryInsertionSort(mode, s, start) ==
  IF start >= Len(s) THEN s
  ELSE LET pivot == s[start + 1]
           left == BinarySearch(mode, s, pivot, 0, start)
           moved == SubSeq(s, 1, left) \o <<pivot>> \o SubSeq(s, left + 1, start)
                    \o SubSeq(s, start + 2, Len(s))
       IN  BinaryInsertionSort(mode, moved, start + 1)

TimSortShort(mode, s) ==
  IF Len(s) < 2 THEN s
  ELSE LET descending == Compare(mode, s[2], s[1]) < 0
           runEnd == RunEnd(mode, s, descending, 2)
           run == SubSeq(s, 1, runEnd)
           made == (IF descending THEN Reverse(run) ELSE run)
                   \o SubSeq(s, runEnd + 1, Len(s))
       IN  BinaryInsertionSort(mode, made, runEnd)

RECURSIVE Merge(_, _, _)
Merge(mode, l, r) ==
  IF l = <<>> THEN r
  ELSE IF r = <<>> THEN l
  ELSE IF Compare(mode, r[1], l[1]) < 0
       THEN <<r[1]>> \o Merge(mode, l, Tail(r))
       ELSE <<l[1]>> \o Merge(mode, Tail(l), r)

RECURSIVE MergeSort(_, _)
MergeSort(mode, s) ==
  IF Len(s) < 2 THEN s
  ELSE LET mid == Len(s) \div 2
       IN  Merge(mode, MergeSort(mode, SubSeq(s, 1, mid)),
                       MergeSort(mode, SubSeq(s, mid + 1, Len(s))))

SortOutcomes(mode, s) == {TimSortShort(mode, s), MergeSort(mode, s)}

Slice(s, n) == SubSeq(s, 1, Min(n, Len(s)))

RECURSIVE Filter(_, _)
(* Array.prototype.filter for the join's filter callback under urgency. *)
Filter(urgency, s) ==
  IF s = <<>> THEN <<>>
  ELSE IF urgency = "emergency" /\ Head(s).isOpen = OpenFalse
       THEN Filter(urgency, Tail(s))
       ELSE <<Head(s)>> \o Filter(urgency, Tail(s))

RECURSIVE Scored(_)
(* results.filter(p => p.geometry?.location).map(place => ({...place,      *)
(* distance, score, isOpen: null})), each with its lookup not yet issued.  *)
Scored(results) ==
  IF results = <<>> THEN <<>>
  ELSE IF ~Head(results).geometry THEN Scored(Tail(results))
  ELSE << [id |-> Head(results).place_id,
           score |-> calculateScore(Head(results), Head(results).dist),
           isOpen |-> OpenNull] >> \o Scored(Tail(results))

(* initialScored: the possible values of the sorted, truncated list. *)
InitialScored(urgency, results) ==
  {Slice(sorted, PreFilterCap(urgency)) : sorted \in SortOutcomes("score", Scored(results))}

(* finalPlaces: the possible values, from the joined lookups' places. *)
FinalPlaces(urgency, placesWithDetails) ==
  {Slice(Filter(urgency, sorted), ResultCap(urgency)) :
     sorted \in SortOutcomes(urgency, placesWithDetails)}

-----------------------------------------------------------------------------
(* Detail lookups *)

Pending == [status |-> "PENDING", details |-> FALSE, hours |-> "absent"]

(* What getDetails can call back with: a status, whether details came, and  *)
(* what details.opening_hours is: absent, an object without an isOpen       *)
(* function, or one whose isOpen() throws or returns true, false or         *)
(* undefined.                                                               *)
NotOkResponse == [status |-> "ERROR", details |-> FALSE, hours |-> "absent"]
OpenResponse == [status |-> "OK", details |-> TRUE, hours |-> "true"]
ClosedResponse == [status |-> "OK", details |-> TRUE, hours |-> "false"]

AllResponses ==
  {NotOkResponse, OpenResponse, ClosedResponse,
   [status |-> "ERROR", details |-> TRUE, hours |-> "true"],
   [status |-> "OK", details |-> FALSE, hours |-> "absent"],
   [status |-> "OK", details |-> TRUE, hours |-> "absent"],
   [status |-> "OK", details |-> TRUE, hours |-> "noIsOpen"],
   [status |-> "OK", details |-> TRUE, hours |-> "throws"],
   [status |-> "OK", details |-> TRUE, hours |-> "undefined"]}

RankResponses == {NotOkResponse, OpenResponse, ClosedResponse}

(* DetailsIsOpen reading every answer that is not open as closed. *)
DetailsIsOpenGuessed(resp) ==
  IF resp.status = "OK" /\ resp.details
  THEN IF resp.hours = "true" THEN OpenTrue ELSE OpenFalse
  ELSE OpenNull

(* The isOpen the getDetails callback resolves its promise with. *)
DetailsIsOpen(resp) ==
  IF resp.status = "OK" /\ resp.details
  THEN IF resp.hours \in {"throws", "true", "false", "undefined"}
       THEN IF resp.hours = "throws" THEN OpenNull
            ELSE IF resp.hours = "true" THEN OpenTrue
            ELSE IF resp.hours = "false" THEN OpenFalse
            ELSE OpenUndefined
       ELSE OpenNull
  ELSE OpenNull

(* A candidate as the join sees it: the place its promise resolved with. *)
PlaceOf(c) == [id |-> c.id, score |-> c.score, isOpen |-> c.isOpen]

PlacesWithDetails(cands) == [i \in 1..Len(cands) |-> PlaceOf(cands[i])]

(* AllSettled as a race: fulfilled by the first lookup that settles. *)
AnySettled(cands) == cands = <<>> \/ \E i \in 1..Len(cands) : cands[i].resp # Pending

(* Promise.all(detailsPromises) is fulfilled: every lookup has settled. *)
AllSettled(cands) == \A i \in 1..Len(cands) : cands[i].resp # Pending

(* The join's then-callback is a microtask: it runs before any other task. *)
JoinReady(s) == searches[s].pc = "details" /\ AllSettled(searches[s].cands)

NoMicrotask == \A s \in 1..Len(searches) : ~JoinReady(s)

-----------------------------------------------------------------------------
(* Construction *)

Init ==
  /\ keyConfigured \in BOOLEAN
  /\ triageResult \in {NoTriage} \cup Urgencies
  /\ initPc = "unmounted"
  /\ userLocation = "none"
  /\ places = <<>>
  /\ loading = TRUE
  /\ error = NoError
  /\ selectedPlace = None
  /\ directions = None
  /\ routeInfo = None
  /\ mapInstance = 0
  /\ markers = <<>>
  /\ renderer = None
  /\ searches = <<>>
  /\ routes = <<>>
  /\ clearedAt = 0

uiVars == <<selectedPlace, directions, routeInfo, renderer, routes, clearedAt>>
resultVars == <<places, loading, error, markers>>

-----------------------------------------------------------------------------
(* The two effects *)

(* SearchEffect without the triage result in its guard. *)
SearchEffectWithoutTriageGuard(location, triage) ==
  IF location = "none"
  THEN UNCHANGED <<mapInstance, searches>>
  ELSE /\ mapInstance' = Len(searches) + 1
       /\ searches' = Append(searches,
            [tr |-> triage, pc |-> "text", cands |-> <<>>, final |-> <<>>])

(* The body of the search effect under the given dependencies: past the     *)
(* guard it makes a map and issues the text search.  mapRef.current is set  *)
(* exactly when the render had a triage result; window.google.maps is set   *)
(* whenever userLocation is.                                                *)
SearchEffect(location, triage) ==
  IF location = "none" \/ triage = NoTriage
  THEN UNCHANGED <<mapInstance, searches>>
  ELSE /\ mapInstance' = Len(searches) + 1
       /\ searches' = Append(searches,
            [tr |-> triage, pc |-> "text", cands |-> <<>>, final |-> <<>>])

(* The mount effect up to its first suspension. *)
Mount ==
  /\ initPc = "unmounted"
  /\ IF ~keyConfigured
     THEN /\ error' = KeyMissingMsg
          /\ loading' = FALSE
          /\ initPc' = "noKey"
     ELSE /\ initPc' = "loadingScript"
          /\ UNCHANGED <<error, loading>>
  /\ UNCHANGED <<keyConfigured, triageResult, userLocation, places, markers,
                 mapInstance, searches>>
  /\ UNCHANGED uiVars

(* loadGoogleMaps() resolves: init() goes on to getUserLocation(). *)
ScriptLoaded ==
  /\ initPc = "loadingScript"
  /\ NoMicrotask
  /\ initPc' = "locating"
  /\ UNCHANGED <<keyConfigured, triageResult, userLocation, mapInstance, searches>>
  /\ UNCHANGED resultVars
  /\ UNCHANGED uiVars

(* loadGoogleMaps() rejects: init()'s catch. *)
ScriptFailed ==
  /\ initPc = "loadingScript"
  /\ NoMicrotask
  /\ initPc' = "scriptFailed"
  /\ error' = LoadFailedMsg
  /\ loading' = FALSE
  /\ UNCHANGED <<keyConfigured, triageResult, userLocation, places, markers,
                 mapInstance, searches>>
  /\ UNCHANGED uiVars

(* getUserLocation() resolves, with the position or the default; the render *)
(* that follows setUserLocation runs the search effect.                     *)
LocationResolved(location) ==
  /\ initPc = "locating"
  /\ NoMicrotask
  /\ initPc' = "located"
  /\ userLocation' = location
  /\ SearchEffect(location, triageResult)
  /\ UNCHANGED <<keyConfigured, triageResult>>
  /\ UNCHANGED resultVars
  /\ UNCHANGED uiVars

(* The parent renders the component with another triageResult (a new object *)
(* even when the urgency is the same); the search effect runs again.        *)
TriageChange(triage) ==
  /\ initPc # "unmounted"
  /\ NoMicrotask
  /\ ~(triage = NoTriage /\ triageResult = NoTriage)
  /\ (userLocation # "none" /\ triage # NoTriage) => Len(searches) < MaxSearches
  /\ triageResult' = triage
  /\ SearchEffect(userLocation, triage)
  /\ UNCHANGED <<keyConfigured, initPc, userLocation>>
  /\ UNCHANGED resultVars
  /\ UNCHANGED uiVars

-----------------------------------------------------------------------------
(* The search callbacks *)

WithPendingLookups(scored) ==
  [i \in 1..Len(scored) |->
     [id |-> scored[i].id, score |-> scored[i].score,
      isOpen |-> scored[i].isOpen, resp |-> Pending]]

(* processResults up to the join: clear the markers, score, sort, truncate, *)
(* and issue one getDetails per kept candidate.                             *)
ProcessResults(s, results) ==
  /\ markers' = <<>>
  /\ \E initialScored \in InitialScored(searches[s].tr, results) :
       searches' = [searches EXCEPT ![s].pc = "details",
                                    ![s].cands = WithPendingLookups(initialScored)]
  /\ UNCHANGED <<places, loading, error>>

TextSearchOK(s, results) ==
  /\ searches[s].pc = "text"
  /\ NoMicrotask
  /\ ProcessResults(s, results)
  /\ UNCHANGED <<keyConfigured, triageResult, initPc, userLocation, mapInstance>>
  /\ UNCHANGED uiVars

(* Any other outcome of the text search issues the nearby search. *)
TextSearchFail(s) ==
  /\ searches[s].pc = "text"
  /\ NoMicrotask
  /\ searches' = [searches EXCEPT ![s].pc = "nearby"]
  /\ UNCHANGED <<keyConfigured, triageResult, initPc, userLocation, mapInstance>>
  /\ UNCHANGED resultVars
  /\ UNCHANGED uiVars

NearbyOK(s, results) ==
  /\ searches[s].pc = "nearby"
  /\ NoMicrotask
  /\ ProcessResults(s, results)
  /\ UNCHANGED <<keyConfigured, triageResult, initPc, userLocation, mapInstance>>
  /\ UNCHANGED uiVars

NearbyFail(s) ==
  /\ searches[s].pc = "nearby"
  /\ NoMicrotask
  /\ searches' = [searches EXCEPT ![s].pc = "failed"]
  /\ error' = NoHospitalsMsg
  /\ loading' = FALSE
  /\ UNCHANGED <<keyConfigured, triageResult, initPc, userLocation, mapInstance,
                 places, markers>>
  /\ UNCHANGED uiVars

(* The getDetails callback of candidate i resolves its promise. *)
DetailsReturn(s, i, resp) ==
  /\ searches[s].pc = "details"
  /\ NoMicrotask
  /\ searches[s].cands[i].resp = Pending
  /\ searches' = [searches EXCEPT ![s].cands[i].resp = resp,
                                  ![s].cands[i].isOpen = DetailsIsOpen(resp)]
  /\ UNCHANGED <<keyConfigured, triageResult, initPc, userLocation, mapInstance>>
  /\ UNCHANGED resultVars
  /\ UNCHANGED uiVars

MarkersOf(finalPlaces, map) ==
  [i \in 1..Len(finalPlaces) |-> [place |-> finalPlaces[i], map |-> map]]

(* The then-callback of Promise.all: sort, filter, truncate, publish. *)
Join(s) ==
  /\ JoinReady(s)
  /\ \E finalPlaces \in FinalPlaces(searches[s].tr, PlacesWithDetails(searches[s].cands)) :
       /\ places' = finalPlaces
       /\ markers' = markers \o MarkersOf(finalPlaces, s)
       /\ searches' = [searches EXCEPT ![s].pc = "done", ![s].final = finalPlaces]
  /\ loading' = FALSE
  /\ UNCHANGED <<keyConfigured, triageResult, initPc, userLocation, mapInstance, error>>
  /\ UNCHANGED uiVars

-----------------------------------------------------------------------------
(* Selection and directions *)

(* The facility cards are rendered. *)
CardsShown == triageResult # NoTriage /\ ~loading /\ places # <<>>

(* The card's onClick. *)
ClickCard(i) ==
  /\ CardsShown
  /\ NoMicrotask
  /\ i \in 1..Len(places)
  /\ selectedPlace' = Some(places[i])
  /\ UNCHANGED <<keyConfigured, triageResult, initPc, userLocation, mapInstance,
                 searches, directions, routeInfo, renderer, routes, clearedAt>>
  /\ UNCHANGED resultVars

(* The click listener of a marker on the map now in the page. *)
ClickMarker(m) ==
  /\ triageResult # NoTriage
  /\ NoMicrotask
  /\ m \in 1..Len(markers)
  /\ markers[m].map = mapInstance
  /\ selectedPlace' = Some(markers[m].place)
  /\ UNCHANGED <<keyConfigured, triageResult, initPc, userLocation, mapInstance,
                 searches, directions, routeInfo, renderer, routes, clearedAt>>
  /\ UNCHANGED resultVars

LegA ==
  [distance |-> "2.1 km", duration |-> "6 mins",
   steps |-> << [instructions |-> "Head north", distance |-> "0.4 km"],
                [instructions |-> "Turn left", distance |-> "1.7 km"] >>]

LegB ==
  [distance |-> "5.0 km", duration |-> "12 mins",
   steps |-> << [instructions |-> "Turn left", distance |-> "3.0 km"],
                [instructions |-> "Head north", distance |-> "1.2 km"],
                [instructions |-> "Turn left", distance |-> "0.8 km"] >>]

(* The DirectionsResults the service may answer a request to place with. *)
RouteResults(place) ==
  {[request |-> [destination |-> place.id], routes |-> rs] :
     rs \in { << [legs |-> <<LegA>>] >>,
              << [legs |-> <<LegB, LegA>>], [legs |-> <<LegA>>] >> }}

(* What renderer.setDirections({ routes: [] }) leaves in the renderer. *)
EmptyResult == [request |-> [destination |-> 0], routes |-> <<>>]

RECURSIVE StepsOf(_)
(* leg.steps.map(step => ({instruction, distance})) *)
StepsOf(steps) ==
  IF steps = <<>> THEN <<>>
  ELSE << [instruction |-> Head(steps).instructions,
           distance |-> Head(steps).distance] >> \o StepsOf(Tail(steps))

(* The route info extracted from a result. *)
RouteInfoOf(result) ==
  LET route == result.routes[1]
      leg == route.legs[1]
  IN  [distance |-> leg.distance, duration |-> leg.duration,
       steps |-> StepsOf(leg.steps)]

(* showDirections(place) up to the request: the Get Directions button. *)
ShowDirections(i) ==
  /\ CardsShown
  /\ NoMicrotask
  /\ i \in 1..Len(places)
  /\ mapInstance # 0 /\ userLocation # "none"
  /\ Len(routes) < MaxRoutes
  /\ renderer' = IF renderer = None
                 THEN Some([map |-> mapInstance, shown |-> None])
                 ELSE renderer
  /\ routes' = Append(routes, [place |-> places[i], st |-> "pending"])
  /\ UNCHANGED <<keyConfigured, triageResult, initPc, userLocation, mapInstance,
                 searches, selectedPlace, directions, routeInfo, clearedAt>>
  /\ UNCHANGED resultVars

(* What the route callback does to the state under status OK. *)
RouteCallbackOK(r, result) ==
  /\ renderer' = Some([renderer[1] EXCEPT !.shown = Some(result)])
  /\ directions' = Some(result)
  /\ selectedPlace' = Some(routes[r].place)
  /\ routeInfo' = Some(RouteInfoOf(result))

(* RouteCallbackFailed dropping the route shown so far. *)
RouteCallbackFailedClears(r) ==
  /\ directions' = None
  /\ routeInfo' = None
  /\ UNCHANGED <<renderer, selectedPlace>>

(* What the route callback does to the state under any other status. *)
RouteCallbackFailed(r) ==
  UNCHANGED <<renderer, directions, selectedPlace, routeInfo>>

RouteOK(r, result) ==
  /\ routes[r].st = "pending"
  /\ NoMicrotask
  /\ RouteCallbackOK(r, result)
  /\ routes' = [routes EXCEPT ![r].st = "ok"]
  /\ UNCHANGED <<keyConfigured, triageResult, initPc, userLocation, mapInstance,
                 searches, clearedAt>>
  /\ UNCHANGED resultVars

RouteFail(r) ==
  /\ routes[r].st = "pending"
  /\ NoMicrotask
  /\ RouteCallbackFailed(r)
  /\ routes' = [routes EXCEPT ![r].st = "failed"]
  /\ UNCHANGED <<keyConfigured, triageResult, initPc, userLocation, mapInstance,
                 searches, clearedAt>>
  /\ UNCHANGED resultVars

(* clearDirections: the Clear button of the directions panel. *)
ClearDirections ==
  /\ triageResult # NoTriage
  /\ routeInfo # None
  /\ NoMicrotask
  /\ renderer' = IF renderer # None
                 THEN Some([renderer[1] EXCEPT !.shown = Some(EmptyResult)])
                 ELSE renderer
  /\ directions' = None
  /\ routeInfo' = None
  /\ clearedAt' = Len(routes)
  /\ UNCHANGED <<keyConfigured, triageResult, initPc, userLocation, mapInstance,
                 searches, selectedPlace, routes>>
  /\ UNCHANGED resultVars

-----------------------------------------------------------------------------
(* Specifications *)

Locations == {"geo", "default"}

(* One search and the user's selections and directions requests. *)
Next ==
  \/ Mount
  \/ ScriptLoaded
  \/ ScriptFailed
  \/ \E location \in Locations : LocationResolved(location)
  \/ \E s \in 1..Len(searches) :
       \/ \E results \in ResultLists(3, MaxLen) : TextSearchOK(s, results)
       \/ TextSearchFail(s)
       \/ \E results \in ResultLists(3, MaxLen) : NearbyOK(s, results)
       \/ NearbyFail(s)
       \/ \E i \in 1..Len(searches[s].cands), resp \in {OpenResponse, NotOkResponse} :
            DetailsReturn(s, i, resp)
       \/ Join(s)
  \/ \E i \in 1..Len(places) : ClickCard(i)
  \/ \E m \in 1..Len(markers) : ClickMarker(m)
  \/ \E i \in 1..Len(places) : ShowDirections(i)
  \/ \E r \in 1..Len(routes) :
       \/ \E result \in RouteResults(routes[r].place) : RouteOK(r, result)
       \/ RouteFail(r)
  \/ ClearDirections

Spec == Init /\ [][Next]_vars

(* One search whose lookups answer in every way getDetails can. *)
NextLookup ==
  \/ Mount
  \/ ScriptLoaded
  \/ ScriptFailed
  \/ \E location \in Locations : LocationResolved(location)
  \/ \E s \in 1..Len(searches) :
       \/ \E results \in ResultLists(3, MaxLen) : TextSearchOK(s, results)
       \/ TextSearchFail(s)
       \/ \E results \in ResultLists(3, MaxLen) : NearbyOK(s, results)
       \/ NearbyFail(s)
       \/ \E i \in 1..Len(searches[s].cands), resp \in AllResponses :
            DetailsReturn(s, i, resp)
       \/ Join(s)

SpecLookup == Init /\ [][NextLookup]_vars

(* Searches that overlap: the triage result changes while callbacks are     *)
(* out.  The position is the geolocated one and a lookup answers open or    *)
(* fails.                                                                   *)
NextRace ==
  \/ Mount
  \/ ScriptLoaded
  \/ ScriptFailed
  \/ \E location \in {"geo"} : LocationResolved(location)
  \/ \E triage \in {NoTriage} \cup Urgencies : TriageChange(triage)
  \/ \E s \in 1..Len(searches) :
       \/ \E results \in ResultLists(2, MaxRaceLen) : TextSearchOK(s, results)
       \/ TextSearchFail(s)
       \/ \E results \in ResultLists(2, MaxRaceLen) : NearbyOK(s, results)
       \/ NearbyFail(s)
       \/ \E i \in 1..Len(searches[s].cands), resp \in {OpenResponse, NotOkResponse} :
            DetailsReturn(s, i, resp)
       \/ Join(s)

SpecRace == Init /\ [][NextRace]_vars

(* One search over the long result lists: the ranking pipeline. *)
NextRank ==
  \/ Mount
  \/ ScriptLoaded
  \/ \E location \in Locations : LocationResolved(location)
  \/ \E s \in 1..Len(searches) :
       \/ \E results \in ResultLists(Len(Catalog), MaxResults) : TextSearchOK(s, results)
       \/ \E i \in 1..Len(searches[s].cands), resp \in RankResponses :
            DetailsReturn(s, i, resp)
       \/ Join(s)

SpecRank == Init /\ [][NextRank]_vars

-----------------------------------------------------------------------------
(* Properties *)

Published == {s \in 1..Len(searches) : searches[s].pc = "done"}

IsPending(c) == c.resp.status = "PENDING"

(* C1: the list a search publishes is no longer than the cap of the urgency *)
(* that started the search (3 for emergency, 5 otherwise) and, under        *)
(* emergency, holds no facility known to be closed, whatever the scores.    *)
C1_CapAndNoClosed ==
  \A s \in Published :
    LET final == searches[s].final
    IN  /\ Len(final) <= (IF searches[s].tr = "emergency" THEN 3 ELSE 5)
        /\ searches[s].tr = "emergency" =>
             \A i \in 1..Len(final) : final[i].isOpen # OpenFalse

(* C1 witness: an emergency search over five candidates or more, the best   *)
(* scored of them closed, has published three facilities, one of them of    *)
(* unknown status.                                                          *)
C1_Witness ==
  \E s \in Published :
    LET cands == searches[s].cands
        final == searches[s].final
    IN  /\ searches[s].tr = "emergency"
        /\ Len(cands) >= 5
        /\ cands[1].isOpen = OpenFalse
        /\ \A i \in 2..Len(cands) : cands[i].score < cands[1].score
        /\ Len(final) = 3
        /\ \E i \in 1..3 : final[i].isOpen = OpenNull
        /\ places = final

(* C2: in every published list, whatever the urgency, no facility known to  *)
(* be closed stands before one known to be open.                            *)
C2_OpenBeforeClosed ==
  \A s \in Published :
    LET final == searches[s].final
    IN  \A i, j \in 1..Len(final) :
          i < j => ~(final[i].isOpen = OpenFalse /\ final[j].isOpen = OpenTrue)

(* C3: under emergency every published list has its known-open facilities   *)
(* before all others, and facilities of equal open status in non-increasing *)
(* order of score.                                                          *)
C3_EmergencyOrder ==
  \A s \in Published :
    searches[s].tr = "emergency" =>
      LET final == searches[s].final
      IN  \A i, j \in 1..Len(final) :
            i < j =>
              /\ final[j].isOpen = OpenTrue => final[i].isOpen = OpenTrue
              /\ final[i].isOpen = final[j].isOpen => final[i].score >= final[j].score

(* C3 witness: an emergency list with two open facilities of different      *)
(* scores ahead of an unknown one that outscores them both.                 *)
C3_Witness ==
  \E s \in Published :
    LET final == searches[s].final
    IN  /\ searches[s].tr = "emergency"
        /\ Len(final) = 3
        /\ final[1].isOpen = OpenTrue /\ final[2].isOpen = OpenTrue
        /\ final[3].isOpen = OpenNull
        /\ final[1].score > final[2].score
        /\ final[3].score > final[1].score

(* C4: a search issues the lookups of all its candidates in one step, all   *)
(* pending, and each settles once; it publishes only once every one of them *)
(* has settled: no published search has a pending lookup, the displayed     *)
(* list and the loading flag change only in the step that takes a search    *)
(* with no pending lookup from its lookups to published, and a published    *)
(* search never changes again.                                              *)
C4_JoinBeforePublish ==
  /\ [](\A s \in 1..Len(searches) :
          /\ searches[s].pc = "done" => \A i \in 1..Len(searches[s].cands) :
                                          ~IsPending(searches[s].cands[i])
          /\ searches[s].pc \in {"text", "nearby"} => searches[s].cands = <<>>)
  /\ [][/\ \A s \in 1..Len(searches) :
              /\ searches[s].pc = "done" => searches'[s] = searches[s]
              /\ (searches[s].pc # "details" /\ searches'[s].pc = "details") =>
                   \A i \in 1..Len(searches'[s].cands) : IsPending(searches'[s].cands[i])
              /\ searches[s].pc = "details" =>
                   /\ Len(searches'[s].cands) = Len(searches[s].cands)
                   /\ \A i \in 1..Len(searches[s].cands) :
                        ~IsPending(searches[s].cands[i]) =>
                          searches'[s].cands[i] = searches[s].cands[i]
        /\ (places' # places \/ (loading /\ ~loading' /\ error' = error)) =>
              \E s \in 1..Len(searches) :
                /\ searches[s].pc = "details" /\ searches'[s].pc = "done"
                /\ \A i \in 1..Len(searches[s].cands) : ~IsPending(searches[s].cands[i])
                /\ places' = searches'[s].final
                /\ ~loading']_vars

(* C4 witness: a search has published after two lookups that answered      *)
(* differently.                                                             *)
C4_Witness ==
  \E s \in Published :
    /\ Len(searches[s].cands) = 2
    /\ searches[s].cands[1].resp # searches[s].cands[2].resp
    /\ places = searches[s].final
    /\ Len(markers) = Len(places)
    /\ ~loading

(* C5: once no callback is outstanding, the displayed list is the one the   *)
(* most recently started search computed.                                   *)
C5_LatestSearchWins ==
  (/\ searches # <<>>
   /\ \A s \in 1..Len(searches) : searches[s].pc \in {"done", "failed"}
   /\ searches[Len(searches)].pc = "done")
  => places = searches[Len(searches)].final

FailedLookup(resp) ==
  \/ resp.status # "OK"
  \/ ~resp.details
  \/ resp.hours \in {"absent", "noIsOpen", "throws"}

(* C6: a lookup that fails or brings no usable hours leaves its candidate's *)
(* open status unknown, and the search still publishes, with every such     *)
(* candidate unknown in the list, loading ended and no error set.           *)
C6_FailedLookupIsUnknown ==
  \A s \in 1..Len(searches) :
    /\ \A i \in 1..Len(searches[s].cands) :
         LET c == searches[s].cands[i]
         IN  /\ (~IsPending(c) /\ FailedLookup(c.resp)) => c.isOpen = OpenNull
             /\ c.isOpen \in {OpenTrue, OpenFalse} =>
                  c.resp.status = "OK" /\ c.resp.details /\ c.resp.hours = c.isOpen
             /\ (searches[s].pc = "done" /\ FailedLookup(c.resp)) =>
                  \A k \in 1..Len(searches[s].final) :
                    searches[s].final[k].id = c.id =>
                      searches[s].final[k].isOpen = OpenNull
    /\ searches[s].pc = "done" => ~loading /\ error = NoError
    /\ (searches[s].pc = "details" /\ \A i \in 1..Len(searches[s].cands) :
                                         ~IsPending(searches[s].cands[i]))
         => ENABLED Join(s)

(* C6 witness: a search has published two facilities, one whose lookup      *)
(* failed and one whose lookup said open.                                   *)
C6_Witness ==
  \E s \in Published :
    /\ Len(searches[s].cands) = 2
    /\ Len(searches[s].final) = 2
    /\ \E i \in 1..2 : FailedLookup(searches[s].cands[i].resp)
    /\ \E i \in 1..2 : searches[s].cands[i].isOpen = OpenTrue
    /\ ~loading /\ error = NoError

(* C7: a shown route info is the route to the selected facility. *)
C7_RouteInfoIsOfSelected ==
  routeInfo # None =>
    /\ selectedPlace # None
    /\ directions # None
    /\ directions[1].request.destination = selectedPlace[1].id

(* C8: a directions response with a status other than OK leaves routeInfo,  *)
(* directions, selectedPlace, the rendered route and error as they were; a  *)
(* response with OK sets routeInfo to the first route's first leg, steps in *)
(* order, and selectedPlace to the requested facility.                      *)
C8_RouteResponse ==
  [][\A r \in 1..Len(routes) :
       routes[r].st = "pending" =>
         /\ routes'[r].st = "failed" =>
              UNCHANGED <<routeInfo, directions, selectedPlace, renderer, error>>
         /\ routes'[r].st = "ok" =>
              LET result == directions'[1]
                  leg == result.routes[1].legs[1]
              IN  /\ result \in RouteResults(routes[r].place)
                  /\ renderer'[1].shown = Some(result)
                  /\ routeInfo' # None
                  /\ routeInfo'[1].distance = leg.distance
                  /\ routeInfo'[1].duration = leg.duration
                  /\ Len(routeInfo'[1].steps) = Len(leg.steps)
                  /\ \A k \in 1..Len(leg.steps) :
                       /\ routeInfo'[1].steps[k].instruction = leg.steps[k].instructions
                       /\ routeInfo'[1].steps[k].distance = leg.steps[k].distance
                  /\ selectedPlace' = Some(routes[r].place)
                  /\ error' = error]_vars

(* C8 witness: a request has failed and another has been answered OK with a *)
(* result of two routes, whose route info is shown.                         *)
C8_Witness ==
  /\ Len(routes) = 2
  /\ routes[1].st = "ok" /\ routes[2].st = "failed"
  /\ Len(directions[1].routes) = 2
  /\ routeInfo # None /\ routeInfo[1].distance = "5.0 km"
  /\ selectedPlace = Some(routes[1].place)
  /\ error = NoError

(* C9: every search was started with the credential configured and with a   *)
(* triage result of its own; without the credential the error is set,       *)
(* loading has ended and neither the location request nor a search nor a    *)
(* map exists; a step that ends with no triage result starts no search and  *)
(* makes no map.                                                            *)
C9_SearchNeedsKeyAndTriage ==
  /\ [](/\ \A s \in 1..Len(searches) : keyConfigured /\ searches[s].tr \in Urgencies
        /\ mapInstance # 0 => keyConfigured
        /\ (~keyConfigured /\ initPc # "unmounted") =>
             /\ error = KeyMissingMsg /\ ~loading
             /\ initPc = "noKey" /\ userLocation = "none"
             /\ searches = <<>> /\ mapInstance = 0)
  /\ [][triageResult' = NoTriage =>
          /\ Len(searches') = Len(searches)
          /\ mapInstance' = mapInstance]_vars

(* C9 witness: a search was started under a triage result, the triage       *)
(* result then went away, and the search's nearby fallback was issued: no   *)
(* second search, no second map.                                            *)
C9_Witness ==
  /\ triageResult = NoTriage
  /\ initPc = "located"
  /\ Len(searches) = 1
  /\ searches[1].pc = "nearby"
  /\ mapInstance = 1

(* C10: with loading ended, an error and a non-empty list are never both    *)
(* displayed.                                                               *)
C10_ReadyXorError ==
  ~loading => ~(error # NoError /\ places # <<>>)

(* C11: after clearDirections, routeInfo and directions stay null until the *)
(* next showDirections; and once no request is outstanding and the request  *)
(* issued last has been answered OK with no clear since, the route shown is *)
(* the route to that request's facility.                                    *)
C11_ClearAndLastRequestWin ==
  /\ (clearedAt > 0 /\ clearedAt = Len(routes)) =>
       routeInfo = None /\ directions = None
  /\ (/\ routes # <<>>
      /\ \A r \in 1..Len(routes) : routes[r].st # "pending"
      /\ routes[Len(routes)].st = "ok"
      /\ clearedAt < Len(routes)) =>
       /\ routeInfo # None /\ directions # None
       /\ directions[1].request.destination = routes[Len(routes)].place.id

=============================================================================
